---------------------------- MODULE Spec2Model ----------------------------
(***************************************************************************)
(* Model of minishift's remote bootstrap pipeline:                         *)
(*   - pkg/minishift/network (src/unnamed/part_000): the capability gate,  *)
(*     discovery of the guest's network settings, the rendering and the    *)
(*     best-effort write of the per-device network scripts;                *)
(*   - pkg/util/ocp/download.go: download and unpacking of the oc client.  *)
(*                                                                         *)
(* Every operation is one atomic action.  An operation is computed as a    *)
(* chain of steps over a "run" record                                      *)
(*     [log, cfg, files, status]                                           *)
(* where log is the trace of observable events of the invocation, cfg the  *)
(* instance-config store, files the guest's files and status tells whether *)
(* the process is still running.  A step on a run whose status is not      *)
(* "running" does nothing: the process has gone.                           *)
(***************************************************************************)
EXTENDS Integers, Sequences, FiniteSets, TLC

VARIABLES
    InstanceConfig,   \* minishiftConfig.InstanceConfig: IPAddress, IsRHELBased, SupportsNetworkAssignment
    hypervisor,       \* the VM driver kind read by IsVirtualBox/IsKVM/IsHyperV/IsXhyve
    guestFiles,       \* path on the guest -> content ("" when the file is absent)
    op,               \* the operation that ran last
    log,              \* the events of the operation that ran last, in order
    status,           \* how it ended: "done", "exited" (ExitWithMessage) or "panicked"
    lastIn,           \* the answers the driver and the guest gave to the operation that ran last
    cfgBefore         \* InstanceConfig as it was when the operation that ran last started

netVars == <<InstanceConfig, hypervisor, guestFiles, status, lastIn, cfgBefore>>

VARIABLES
    renderIn,         \* the NetworkSettings given to the last rendering
    renderOut         \* the script it produced

renderVars == <<renderIn, renderOut>>

VARIABLES
    fs,               \* the local file system: the temporary working directory and the output directory
    dlIn,             \* the request of the last download and what the environment answered
    dlRet             \* the error it returned ("" for nil)

dlVars == <<fs, dlIn, dlRet>>

VARIABLES
    sdIn,             \* the arguments of the last storage-driver resolution and the guest's answer
    sdRet             \* what it returned: the driver and the error ("" for nil)

sdVars == <<sdIn, sdRet>>

VARIABLES
    ipIn,             \* the flags of the last ip command and what the host and the driver answered
    ipOut             \* what GetIP returned to it: the address and the error ("" for nil)

ipVars == <<ipIn, ipOut>>

\* configureAuth: the pass made last and the error it returned
VARIABLES
    authIn,
    authRet

authVars == <<authIn, authRet>>

-----------------------------------------------------------------------------
(* Bounds and input domains *)

\* addresses the driver can report (the empty one is the "no address" case)
DriverIPs == {"", "10.0.0.5"}

\* device names the guest can report for the address
Devices == {"eth0", "eth1"}

\* hypervisor kinds; GENERIC stands for every kind outside the four known ones
Hypervisors == {"VIRTUALBOX", "KVM", "HYPERV", "XHYVE", "GENERIC"}

\* Text returned by a remote command is a sequence of tokens: a token is a
\* separator ("/", " ", "\n") or a run of other characters.
CidrOutputs ==
    { <<"10.0.0.5", "/", "24", "\n">>,
      <<"10.0.0.5", "\n">>,
      <<>> }

ResolvOutputs ==
    { <<"8.8.8.8", " ", "8.8.4.4", " ">>,
      <<>> }

Gateways == {"", "10.0.0.1"}

\* the step of discovery that fails, if any
DiscoveryFailures == {"none", "ip", "device", "cidr", "dns", "gateway"}

-----------------------------------------------------------------------------
(* Messages *)

configureIPAddressMessage == "-- Set the following network settings to VM ..."
configureRestartNeededMessage == "Network settings get applied to the instance on restart"
configureNetworkNotSupportedMessage == "The Minishift VM does not support network assignment"

-----------------------------------------------------------------------------
(* Text helpers: strings.TrimSpace, strings.Split and the concatenation of  *)
(* tokens, over token sequences.                                            *)

Range(s) == {s[i] : i \in DOMAIN s}

IsSpace(t) == t \in {" ", "\n", "\t"}

RECURSIVE TrimLeft(_)
TrimLeft(s) ==
    IF s # <<>> /\ IsSpace(Head(s)) THEN TrimLeft(Tail(s)) ELSE s

RECURSIVE TrimRight(_)
TrimRight(s) ==
    IF s # <<>> /\ IsSpace(s[Len(s)]) THEN TrimRight(SubSeq(s, 1, Len(s) - 1)) ELSE s

TrimSpace(s) == TrimRight(TrimLeft(s))

RECURSIVE Concat(_)
Concat(s) == IF s = <<>> THEN "" ELSE Head(s) \o Concat(Tail(s))

\* strings.Split(s, sep): the pieces between the separators; one piece (the
\* whole, possibly empty, text) when sep does not occur.
RECURSIVE SplitFrom(_, _, _)
SplitFrom(s, sep, cur) ==
    IF s = <<>> THEN <<Concat(cur)>>
    ELSE IF Head(s) = sep THEN <<Concat(cur)>> \o SplitFrom(Tail(s), sep, <<>>)
    ELSE SplitFrom(Tail(s), sep, Append(cur, Head(s)))

Split(s, sep) == SplitFrom(s, sep, <<>>)

BoolString(b) == IF b THEN "true" ELSE "false"

-----------------------------------------------------------------------------
(* Runs and events *)

Ev(ev, arg) == [ev |-> ev, arg |-> arg]

Running(r) == r.status = "running"

Emit(r, e) == [r EXCEPT !.log = Append(@, e)]

\* fmt.Println
Println(r, msg) == IF Running(r) THEN Emit(r, Ev("println", msg)) ELSE r

\* atexit.ExitWithMessage: prints the message and terminates the process
ExitWithMessage(r, msg) ==
    IF Running(r) THEN [Emit(r, Ev("exit", msg)) EXCEPT !.status = "exited"] ELSE r

\* a Go run-time panic (index out of range): the process terminates
Panic(r, msg) ==
    IF Running(r) THEN [Emit(r, Ev("panic", msg)) EXCEPT !.status = "panicked"] ELSE r

-----------------------------------------------------------------------------
(* NetworkSettings *)

NetworkSettings(device, ip, netmask, gateway, dns1, dns2, useDHCP, disabled) ==
    [Device |-> device, IPAddress |-> ip, Netmask |-> netmask, Gateway |-> gateway,
     DNS1 |-> dns1, DNS2 |-> dns2, UseDHCP |-> useDHCP, Disabled |-> disabled]

ZeroSettings == NetworkSettings("", "", "", "", "", "", FALSE, FALSE)

configureNetworkScriptStaticAddressTemplate(ns) ==
    "DEVICE=" \o ns.Device \o "\n" \o
    "IPADDR=" \o ns.IPAddress \o "\n" \o
    "NETMASK=" \o ns.Netmask \o "\n" \o
    "GATEWAY=" \o ns.Gateway \o "\n" \o
    "DNS1=" \o ns.DNS1 \o "\n" \o
    "DNS2=" \o ns.DNS2 \o "\n"

configureNetworkScriptDynamicAddressTemplate(ns) ==
    "DEVICE=" \o ns.Device \o "\n" \o
    "USEDHCP=" \o BoolString(ns.UseDHCP) \o "\n"

configureNetworkScriptDisabledAddressTemplate(ns) ==
    "DEVICE=" \o ns.Device \o "\n" \o
    "DISABLED=" \o BoolString(ns.Disabled) \o "\n"

\* variant: useDHCP is looked at before disabled
fillNetworkSettingsScript_DhcpFirst(ns) ==
    IF ns.UseDHCP THEN configureNetworkScriptDynamicAddressTemplate(ns)
    ELSE IF ns.Disabled THEN configureNetworkScriptDisabledAddressTemplate(ns)
    ELSE configureNetworkScriptStaticAddressTemplate(ns)

fillNetworkSettingsScript(ns) ==
    IF ns.Disabled THEN configureNetworkScriptDisabledAddressTemplate(ns)
    ELSE IF ns.UseDHCP THEN configureNetworkScriptDynamicAddressTemplate(ns)
    ELSE configureNetworkScriptStaticAddressTemplate(ns)

\* the guest file a device's script is written to
NetworkingPath(device) == "/var/lib/minishift/networking-" \o device

GuestPaths == {NetworkingPath(d) : d \in Devices \cup {"eth0", "eth1"}}

\* variant: a failed write terminates the process
WriteNetworkSettingsToHost_AbortOnFailure(r, ns, sshOk) ==
    IF ~Running(r) THEN r
    ELSE LET networkScript == fillNetworkSettingsScript(ns)
             path == NetworkingPath(ns.Device)
             call(ret) == Ev("apply", [settings |-> ns, path |-> path, script |-> networkScript,
                                       ok |-> sshOk, ret |-> ret])
         IN  IF ~sshOk
             THEN ExitWithMessage(Emit(r, call(FALSE)), "FAIL")
             ELSE Println([Emit(r, call(TRUE)) EXCEPT !.files[path] = networkScript], "OK")

\* WriteNetworkSettingsToHost: render, encode and send one remote command that
\* overwrites the device's file; sshOk tells whether the command succeeds.
\* The boolean result (ret) is ignored by every caller; the event records it.
\* The base64 encoding on the host and the decoding on the guest cancel out:
\* the file receives the rendered script.
WriteNetworkSettingsToHost(r, ns, sshOk) ==
    IF ~Running(r) THEN r
    ELSE LET networkScript == fillNetworkSettingsScript(ns)
             path == NetworkingPath(ns.Device)
             call(ret) == Ev("apply", [settings |-> ns, path |-> path, script |-> networkScript,
                                       ok |-> sshOk, ret |-> ret])
         IN  IF ~sshOk
             THEN Println(Emit(r, call(FALSE)), "FAIL")
             ELSE Println([Emit(r, call(TRUE)) EXCEPT !.files[path] = networkScript], "OK")

-----------------------------------------------------------------------------
(* The capability gate *)

\* variant: the gate passes when either flag is set
checkSupportForAddressAssignment_Either(r) ==
    IF ~Running(r) THEN r
    ELSE IF r.cfg.IsRHELBased \/ r.cfg.SupportsNetworkAssignment
         THEN r
         ELSE ExitWithMessage(r, configureNetworkNotSupportedMessage)

checkSupportForAddressAssignment(r) ==
    IF ~Running(r) THEN r
    ELSE IF r.cfg.IsRHELBased /\ r.cfg.SupportsNetworkAssignment
         THEN r
         ELSE ExitWithMessage(r, configureNetworkNotSupportedMessage)

-----------------------------------------------------------------------------
(* Discovery *)

\* The answers of the guest and of the driver to one discovery:
\*   failAt  the query that fails ("none" when all succeed)
\*   ip      the driver's address, device, cidr, dns, gateway the commands' output
\* The output of a query that fails, and of the queries after it, is never
\* read: those fields are held at one value.
DiscoveryInputs ==
    { in \in [failAt : DiscoveryFailures, ip : DriverIPs, device : Devices,
              cidr : CidrOutputs, dns : ResolvOutputs, gateway : Gateways] :
        /\ in.failAt = "ip" => in.ip = ""
        /\ (in.failAt \in {"ip", "device"} \/ in.ip = "") => in.device = "eth0"
        /\ (in.failAt \in {"ip", "device", "cidr"} \/ in.ip = "") => in.cidr = <<>>
        /\ (in.failAt \in {"ip", "device", "cidr", "dns"} \/ in.ip = ""
              \/ "/" \notin Range(in.cidr)) => in.dns = <<>>
        /\ (in.failAt # "none" \/ in.ip = "" \/ "/" \notin Range(in.cidr))
              => in.gateway = "" }

\* variant: the error of the query is ignored
RemoteQuery_IgnoreError(r, name, failed, msg) ==
    IF ~Running(r) THEN r ELSE Emit(r, Ev("ssh", name))

\* one remote query of discovery: the command is issued, and the process
\* exits with the message when it fails
RemoteQuery(r, name, failed, msg) ==
    IF ~Running(r) THEN r
    ELSE LET issued == Emit(r, Ev("ssh", name))
         IN  IF failed THEN ExitWithMessage(issued, msg) ELSE issued

\* GetNetworkSettingsForHost: returns the run and the settings
GetNetworkSettingsForHost(r, in) ==
    LET r1 == IF ~Running(r) THEN r
              ELSE LET asked == Emit(r, Ev("GetIP", ""))
                   IN  IF in.failAt = "ip"
                       THEN ExitWithMessage(asked, "Error getting IP address: driver error")
                       ELSE IF in.ip = ""
                       THEN ExitWithMessage(asked, "Error getting IP address: No address available")
                       ELSE asked
        r2 == RemoteQuery(r1, "device", in.failAt = "device", "Error getting device")
        r3 == RemoteQuery(r2, "cidr", in.failAt = "cidr", "Error getting netmask")
        parts == Split(TrimSpace(in.cidr), "/")
        ipAddress == parts[1]
        r4 == IF Running(r3) /\ Len(parts) < 2
              THEN Panic(r3, "index out of range")
              ELSE r3
        netmask == IF Len(parts) < 2 THEN "" ELSE parts[2]
        r5 == RemoteQuery(r4, "dns", in.failAt = "dns", "Error getting nameserver")
        nameservers == Split(TrimSpace(in.dns), " ")
        r6 == RemoteQuery(r5, "gateway", in.failAt = "gateway", "Error getting gateway")
        networkSettings ==
            NetworkSettings(in.device, ipAddress, netmask, in.gateway,
                            nameservers[1],
                            IF Len(nameservers) > 1 THEN nameservers[2] ELSE "",
                            FALSE, FALSE)
    IN  [run |-> r6, settings |-> IF Running(r6) THEN networkSettings ELSE ZeroSettings]

-----------------------------------------------------------------------------
(* Hypervisor predicates *)

IsVirtualBox(h) == h = "VIRTUALBOX"
IsKVM(h) == h = "KVM"
IsHyperV(h) == h = "HYPERV"
IsXhyve(h) == h = "XHYVE"

-----------------------------------------------------------------------------
(* The two configuration operations *)

printNetworkSettings(r, ns) ==
    LET r1 == Println(r, configureIPAddressMessage)
        r2 == Println(r1, "   Device:      " \o ns.Device)
        r3 == Println(r2, "   IP Address:  " \o ns.IPAddress \o "/" \o ns.Netmask)
        r4 == IF ns.Gateway # "" THEN Println(r3, "   Gateway:     " \o ns.Gateway) ELSE r3
        r5 == IF ns.DNS1 # ""
              THEN Println(r4, "   Nameservers: " \o ns.DNS1 \o " " \o ns.DNS2)
              ELSE r4
    IN  r5

\* InstanceConfig.IPAddress = ip
SetIPAddress(r, ip) ==
    IF Running(r)
    THEN Emit([r EXCEPT !.cfg.IPAddress = ip], Ev("setIPAddress", ip))
    ELSE r

\* InstanceConfig.Write(): flush the store
WriteConfig(r) == IF Running(r) THEN Emit(r, Ev("Write", r.cfg.IPAddress)) ELSE r

\* variant: eth1 is written before eth0
ConfigureDynamicAssignment_Eth1First(r, w1, w2) ==
    LET r1 == Println(checkSupportForAddressAssignment(r), "Dynamic assignment of IP address")
        networkSettingsEth0 == NetworkSettings("eth0", "", "", "", "", "", TRUE, FALSE)
        networkSettingsEth1 == NetworkSettings("eth1", "", "", "", "", "", TRUE, FALSE)
        r2 == WriteNetworkSettingsToHost(r1, networkSettingsEth1, w1)
        r3 == WriteNetworkSettingsToHost(r2, networkSettingsEth0, w2)
    IN  Println(r3, configureRestartNeededMessage)

ConfigureDynamicAssignment(r, w1, w2) ==
    LET r1 == Println(checkSupportForAddressAssignment(r), "Dynamic assignment of IP address")
        networkSettingsEth0 == NetworkSettings("eth0", "", "", "", "", "", TRUE, FALSE)
        r2 == WriteNetworkSettingsToHost(r1, networkSettingsEth0, w1)
        networkSettingsEth1 == NetworkSettings("eth1", "", "", "", "", "", TRUE, FALSE)
        r3 == WriteNetworkSettingsToHost(r2, networkSettingsEth1, w2)
    IN  Println(r3, configureRestartNeededMessage)

\* variant: the companion interface is written before the discovered device
StaticTwoInterfaces_CompanionFirst(r, h, networkSettings, w1, w2) ==
    IF IsVirtualBox(h) \/ IsKVM(h)
    THEN LET dhcpNetworkSettings == NetworkSettings("eth0", "", "", "", "", "", TRUE, FALSE)
             a == Println(r, "vbox or kvm")
             b == WriteNetworkSettingsToHost(a, dhcpNetworkSettings, w1)
         IN  WriteNetworkSettingsToHost(b, networkSettings, w2)
    ELSE r

\* lines 139-150: the two-interface hypervisors
StaticTwoInterfaces(r, h, networkSettings, w1, w2) ==
    IF IsVirtualBox(h) \/ IsKVM(h)
    THEN LET dhcpNetworkSettings == NetworkSettings("eth0", "", "", "", "", "", TRUE, FALSE)
             a == Println(r, "vbox or kvm")
             b == WriteNetworkSettingsToHost(a, networkSettings, w1)
         IN  WriteNetworkSettingsToHost(b, dhcpNetworkSettings, w2)
    ELSE r

\* variant: the discovered device is written on every hypervisor that is not
\* a two-interface one
StaticSingleInterface_PrimaryAlways(r, h, networkSettings, w1, w2) ==
    IF IsHyperV(h) \/ IsXhyve(h)
    THEN LET disabledNetworkSettings == NetworkSettings("eth1", "", "", "", "", "", FALSE, TRUE)
             a == Println(r, "hyperv or xhyve")
             b == WriteNetworkSettingsToHost(a, networkSettings, w1)
         IN  WriteNetworkSettingsToHost(b, disabledNetworkSettings, w2)
    ELSE IF IsVirtualBox(h) \/ IsKVM(h) THEN r
    ELSE WriteNetworkSettingsToHost(r, networkSettings, w1)

\* lines 152-163: the single-interface hypervisors
StaticSingleInterface(r, h, networkSettings, w1, w2) ==
    IF IsHyperV(h) \/ IsXhyve(h)
    THEN LET disabledNetworkSettings == NetworkSettings("eth1", "", "", "", "", "", FALSE, TRUE)
             a == Println(r, "hyperv or xhyve")
             b == WriteNetworkSettingsToHost(a, networkSettings, w1)
         IN  WriteNetworkSettingsToHost(b, disabledNetworkSettings, w2)
    ELSE r

\* variant: the store is flushed before the address is assigned
StaticPersist_FlushBeforeAssign(r, networkSettings) ==
    LET r1 == printNetworkSettings(r, networkSettings)
        r2 == WriteConfig(r1)
        r3 == SetIPAddress(r2, networkSettings.IPAddress)
    IN  Println(r3, configureRestartNeededMessage)

\* lines 165-170: summary, persisted address, flush, notice
StaticPersist(r, networkSettings) ==
    LET r1 == printNetworkSettings(r, networkSettings)
        r2 == SetIPAddress(r1, networkSettings.IPAddress)
        r3 == WriteConfig(r2)
    IN  Println(r3, configureRestartNeededMessage)

ConfigureStaticAssignment(r, h, in, w1, w2) ==
    LET r1 == Println(checkSupportForAddressAssignment(r), "Static assignment of IP address")
        got == GetNetworkSettingsForHost(r1, in)
        r2 == StaticTwoInterfaces(got.run, h, got.settings, w1, w2)
        r3 == StaticSingleInterface(r2, h, got.settings, w1, w2)
    IN  StaticPersist(r3, got.settings)

-----------------------------------------------------------------------------
(* Asset download: pkg/util/ocp/download.go *)

\* File names and extensions are sequences of characters.
OMURL == "https://mirror.openshift.com/pub/openshift-v3/clients/"
TAR == <<"t", "a", "r", ".", "g", "z">>
ZIP == <<"z", "i", "p">>

NameOc == <<"o", "c">>
NameOcExe == <<"o", "c", ".", "e", "x", "e">>
NameReadme == <<"R", "E", "A", "D", "M", "E">>

\* the top-level entries an archive can hold
EntryNames == {NameOc, NameOcExe, NameReadme}

\* the largest number of top-level entries of an archive
MaxEntries == 2

ArchiveContents == {e \in SUBSET EntryNames : Cardinality(e) <= MaxEntries}

\* versions, as the optional prefix and the rest
Versions == {<<"v", "3.7.0">>, <<"3.7.0">>}

OSTypes == {"linux", "darwin", "windows"}

\* the step of the download that fails, if any: creation of the temporary
\* directory, the GET, the write of the archive, the decompressors, the
\* listing, the creation of the output directory (where it does not exist
\* yet), the creation of the destination, the copy, the chmod
DownloadFailures ==
    {"none", "tempdir", "get", "save", "ungzip", "untar", "unzip", "list",
     "mkdir", "create", "copy", "chmod"}

\* Steps that do not exist on the platform's path cannot fail, and the
\* content of an archive that is never unpacked is never seen.  The version
\* only shapes the URL: the prefixed form is tried where the GET fails and
\* where no step fails.
DownloadInputs ==
    { in \in [version : Versions, osType : OSTypes, failAt : DownloadFailures,
              entries : ArchiveContents] :
        /\ in.failAt \notin {"none", "get"} => in.version = <<"3.7.0">>
        /\ in.osType = "windows" => in.failAt \notin {"ungzip", "untar", "list"}
        /\ in.osType # "windows" => in.failAt # "unzip"
        /\ in.failAt \in {"tempdir", "get", "save", "ungzip", "untar", "unzip"}
              => in.entries = {} }

HasSuffix(s, suffix) ==
    /\ Len(s) >= Len(suffix)
    /\ SubSeq(s, Len(s) - Len(suffix) + 1, Len(s)) = suffix

\* strings.TrimPrefix(version, "v")
TrimPrefix(s, prefix) == IF s # <<>> /\ Head(s) = prefix THEN Tail(s) ELSE s

\* regexp.MatchString(".*.tar.*", name): "tar" occurs after at least one character
MatchString(name) ==
    \E i \in 2..(Len(name) - 2) : name[i] = "t" /\ name[i + 1] = "a" /\ name[i + 2] = "r"

\* listDirExcluding(tmpDir, ".*.tar.*") on a readable directory
listDirExcluding(files) == {f \in files : ~MatchString(f)}

\* a download in progress: the file system, the events, the returned error
DlEmit(d, e) == [d EXCEPT !.log = Append(@, e)]

Return(d, err) == [d EXCEPT !.ret = err, !.returned = TRUE]

\* copy(src, dest), src being binaryName in the temporary directory
copy(d, binaryName, failAt) ==
    LET opened == DlEmit(d, Ev("Open", binaryName))
    IN  IF binaryName \notin d.fs.tmp THEN Return(opened, "Cannot open src file")
        ELSE LET created == DlEmit(opened, Ev("Create", binaryName))
                 mode == IF binaryName \in DOMAIN d.fs.out THEN d.fs.out[binaryName].mode
                         ELSE "0666"
                 file(content) == (binaryName :> [content |-> content, mode |-> mode])
             IN  IF failAt = "create" THEN Return(created, "Cannot create dst file")
                 ELSE IF failAt = "copy"
                 THEN Return([created EXCEPT !.fs.out = file("partial") @@ @], "Cannot copy")
                 ELSE [created EXCEPT !.fs.out = file("oc") @@ @]

\* the .tar.gz branch of the switch (lines 75-98)
UnpackTar(d, in, assetTmpFile) ==
    LET tarFile == SubSeq(assetTmpFile, 1, Len(assetTmpFile) - 3)
        d1 == DlEmit(d, Ev("Ungzip", assetTmpFile))
        d2 == [d1 EXCEPT !.fs.tmp = @ \cup {tarFile}]
        d3 == DlEmit(d2, Ev("Untar", tarFile))
        d4 == [d3 EXCEPT !.fs.tmp = @ \cup in.entries]
        d5 == DlEmit(d4, Ev("ReadDir", ""))
        content == listDirExcluding(d5.fs.tmp)
    IN  IF in.failAt = "ungzip" THEN Return(d1, "Cannot ungzip")
        ELSE IF in.failAt = "untar" THEN Return(d3, "Cannot untar")
        ELSE IF in.failAt = "list" THEN Return(d5, "Cannot list content of")
        ELSE IF Cardinality(content) > 1
        THEN Return(d5, "Unexpected number of files in tmp directory")
        ELSE d5

\* the .zip branch of the switch (lines 99-105)
UnpackZip(d, in, assetTmpFile) ==
    LET d1 == DlEmit(d, Ev("Unzip", assetTmpFile))
    IN  IF in.failAt = "unzip" THEN Return(d1, "Cannot unzip")
        ELSE [d1 EXCEPT !.fs.tmp = @ \cup in.entries]

\* lines 108-130: the binary's name, the output directory, the copy, the mode
Install(d, in) ==
    LET binaryName == IF in.osType = "windows" THEN NameOc \o <<".", "e", "x", "e">> ELSE NameOc
        d1 == DlEmit(d, Ev("MkdirAll", ""))
        d2 == [d1 EXCEPT !.fs.outExists = TRUE]
        d3 == copy(d2, binaryName, in.failAt)
        d4 == DlEmit(d3, Ev("Chmod", binaryName))
    IN  IF d.returned THEN d
        ELSE IF in.failAt = "mkdir" /\ ~d.fs.outExists
        THEN Return(d1, "Cannot create the target directory.")
        ELSE IF d3.returned THEN d3
        ELSE IF in.failAt = "chmod" THEN Return(d4, "Cannot make executable")
        ELSE [d4 EXCEPT !.fs.out[binaryName].mode = "0777"]

\* variant: the directory is removed at the end of the success path only
DeferredRemoveAll_OnSuccessOnly(d) ==
    IF d.deferred /\ d.ret = ""
    THEN [DlEmit(d, Ev("RemoveAll", "")) EXCEPT !.fs.tmp = {}, !.fs.tmpExists = FALSE]
    ELSE d

\* defer os.RemoveAll(tmpDir): runs when the function returns, on every path
\* after the directory was created
DeferredRemoveAll(d) ==
    IF d.deferred
    THEN [DlEmit(d, Ev("RemoveAll", "")) EXCEPT !.fs.tmp = {}, !.fs.tmpExists = FALSE]
    ELSE d

DownloadOcpVersionFromMirror(fs0, in) ==
    LET platform == IF in.osType = "darwin" THEN "macosx" ELSE in.osType
        extension == IF in.osType = "windows" THEN ZIP ELSE TAR
        binaryName == NameOc
        url == OMURL \o Concat(TrimPrefix(in.version, "v")) \o "/" \o platform \o "/"
                     \o Concat(binaryName) \o "." \o Concat(extension)
        targetFile == binaryName \o <<".">> \o extension
        d0 == [fs |-> fs0, log |-> <<>>, ret |-> "", returned |-> FALSE, deferred |-> FALSE]
        \* ioutil.TempDir and the defer
        d1 == IF in.failAt = "tempdir"
              THEN Return(d0, "Cannot create temporary download directory.")
              ELSE [DlEmit(d0, Ev("TempDir", "")) EXCEPT !.fs.tmpExists = TRUE, !.fs.tmp = {},
                                                       !.deferred = TRUE]
        assetTmpFile == targetFile
        \* download(url, assetTmpFile, "", "")
        d2 == IF d1.returned THEN d1
              ELSE LET got == DlEmit(d1, Ev("GET", url))
                   IN  IF in.failAt = "get" THEN Return(got, "Unable to get resource")
                       ELSE IF in.failAt = "save"
                       THEN Return([got EXCEPT !.fs.tmp = @ \cup {assetTmpFile}],
                                   "Not able to copy file")
                       ELSE [got EXCEPT !.fs.tmp = @ \cup {assetTmpFile}]
        d3 == IF d2.returned THEN d2
              ELSE IF HasSuffix(assetTmpFile, TAR) THEN UnpackTar(d2, in, assetTmpFile)
              ELSE IF HasSuffix(assetTmpFile, ZIP) THEN UnpackZip(d2, in, assetTmpFile)
              ELSE d2
        d4 == Install(d3, in)
    IN  DeferredRemoveAll(d4)

-----------------------------------------------------------------------------
(* The ip command: GetIP and cmd/minishift/cmd/ip.go *)

\* what driver.GetIP() answers to GetIP: an error, or an address
DriverAnswers == [fails : BOOLEAN, ip : {"10.0.0.5", "10.0.0.9"}]

NoAnswer == [fails |-> FALSE, ip |-> "10.0.0.5"]

NoIP == [ip |-> "", err |-> ""]

\* variant: the driver is asked whatever the store holds
GetIP_DriverOnly(r, drv) ==
    IF drv.fails
    THEN [run |-> Emit(r, Ev("GetIP", "")), ip |-> "", err |-> "driver error"]
    ELSE [run |-> Emit(r, Ev("GetIP", "")), ip |-> drv.ip, err |-> ""]

\* GetIP: the run, the returned address and the returned error
GetIP(r, drv) ==
    LET configuredIP == r.cfg.IPAddress
    IN  IF configuredIP # "" THEN [run |-> r, ip |-> configuredIP, err |-> ""]
        ELSE IF drv.fails
        THEN [run |-> Emit(r, Ev("GetIP", "")), ip |-> "", err |-> "driver error"]
        ELSE [run |-> Emit(r, Ev("GetIP", "")), ip |-> drv.ip, err |-> ""]

\* api.Load(constants.MachineName) and its error check
LoadHost(r, loadFails) ==
    IF ~Running(r) THEN r
    ELSE LET loaded == Emit(r, Ev("Load", ""))
         IN  IF loadFails THEN ExitWithMessage(loaded, "Error getting IP: load error")
             ELSE loaded

\* the else branch of the command: GetIP, then the address is printed
PrintIP(r, drv) ==
    IF ~Running(r) THEN [run |-> r, out |-> NoIP]
    ELSE LET got == GetIP(r, drv)
         IN  [run |-> IF got.err # ""
                      THEN ExitWithMessage(got.run, "Error getting IP: " \o got.err)
                      ELSE Println(got.run, got.ip),
              out |-> [ip |-> got.ip, err |-> got.err]]

\* variant: the two flags are not checked against each other
ipCmdRun_NoExclusion(r, h, flags, in, w1, w2) ==
    LET r2 == LoadHost(r, flags.loadFails)
    IN  IF flags.dhcp
        THEN [run |-> ConfigureDynamicAssignment(r2, w1, w2), out |-> NoIP]
        ELSE IF flags.static
        THEN [run |-> ConfigureStaticAssignment(r2, h, in, w1, w2), out |-> NoIP]
        ELSE PrintIP(r2, flags.driver)

\* ipCmd.Run: the run and what GetIP returned
ipCmdRun(r, h, flags, in, w1, w2) ==
    LET r1 == IF flags.static /\ flags.dhcp
              THEN ExitWithMessage(r, "Invalid options specified")
              ELSE r
        r2 == LoadHost(r1, flags.loadFails)
    IN  IF flags.dhcp
        THEN [run |-> ConfigureDynamicAssignment(r2, w1, w2), out |-> NoIP]
        ELSE IF flags.static
        THEN [run |-> ConfigureStaticAssignment(r2, h, in, w1, w2), out |-> NoIP]
        ELSE PrintIP(r2, flags.driver)

-----------------------------------------------------------------------------
(* Storage driver resolution: the provisioner (src/unnamed/part_001) *)

\* the platform's default driver (the empty one included)
DefaultDrivers == {"aufs", "overlay", "devicemapper", ""}

\* the driver the caller supplies ("" when none)
SuppliedDrivers == {"", "overlay2", "btrfs"}

\* what "stat -f -c %T /var/lib" prints, as tokens
StatOutputs ==
    { <<"btrfs", "\n">>, <<"btrfs">>, <<"xfs", "\n">>, <<"ext2/ext3", "\n">>, <<>> }

StorageInputs ==
    [defaultDriver : DefaultDrivers, suppliedDriver : SuppliedDrivers,
     probeFails : BOOLEAN, stat : StatOutputs]

\* variant: the output of stat is compared as it comes, with its newline
getFilesystemType_NoTrim(in) ==
    IF in.probeFails
    THEN [fstype |-> "", err |-> "Error looking up file system type"]
    ELSE [fstype |-> Concat(in.stat), err |-> ""]

\* getFilesystemType(p, "/var/lib"), the command having been issued
getFilesystemType(in) ==
    IF in.probeFails
    THEN [fstype |-> "", err |-> "Error looking up file system type"]
    ELSE [fstype |-> Concat(TrimSpace(in.stat)), err |-> ""]

\* decideStorageDriver: the returned driver and error, and the events (the
\* remote probe, the deferred debug line)
decideStorageDriver(in) ==
    LET debug(driver) == IF driver # "" THEN <<Ev("Debugf", driver)>> ELSE <<>>
        probe == <<Ev("SSHCommand", "stat -f -c %T /var/lib")>>
        fs1 == getFilesystemType(in)
    IN  IF in.suppliedDriver # ""
        THEN [driver |-> in.suppliedDriver, err |-> "", log |-> <<>>]
        ELSE IF in.defaultDriver # "aufs"
        THEN [driver |-> in.defaultDriver, err |-> "", log |-> debug(in.defaultDriver)]
        ELSE IF fs1.err # ""
        THEN [driver |-> "", err |-> fs1.err, log |-> probe]
        ELSE IF fs1.fstype = "btrfs"
        THEN [driver |-> "btrfs", err |-> "", log |-> probe \o debug("btrfs")]
        ELSE [driver |-> "aufs", err |-> "", log |-> probe \o debug("aufs")]

-----------------------------------------------------------------------------
(* Authentication set-up of the provisioner: configureAuth                  *)
(* (src/unnamed/part_001)                                                   *)

\* hostCerts: the three local credential files and their copies in the store
hostCerts ==
    [CaCertPath |-> "ca.pem", ClientCertPath |-> "cert.pem", ClientKeyPath |-> "key.pem"]

\* remoteCerts: the three credential files and their paths on the guest
remoteCerts ==
    [CaCertPath |-> "CaCertRemotePath", ServerCertPath |-> "ServerCertRemotePath",
     ServerKeyPath |-> "ServerKeyRemotePath"]

\* the orders in which a range over a map may visit its keys
Orders(keys) ==
    { o \in [1..Cardinality(keys) -> keys] : \A i, j \in DOMAIN o : o[i] = o[j] => i = j }

\* the calls of configureAuth that return an error
AuthCalls ==
    {"GetIP", "NewFileAsset", "CopyFileLocal", "GenerateCert", "NewSSHClient",
     "NewRemoteFileAsset", "TransferFile", "GenerateDockerOptions", "SSHCommand", "Service"}

\* the calls made once per credential file
LocalCalls == {"NewFileAsset", "CopyFileLocal"}

RemoteCalls == {"NewRemoteFileAsset", "TransferFile"}

\* One pass: the call that fails ("none" when all succeed), the file it fails
\* on, and the orders of the two ranges.  What a pass never reaches is held at
\* one value.
AuthInputs ==
    { in \in [failAt : AuthCalls \cup {"none"},
              failOn : DOMAIN hostCerts \cup DOMAIN remoteCerts,
              hostOrder : Orders(DOMAIN hostCerts),
              remoteOrder : Orders(DOMAIN remoteCerts)] :
        /\ in.failAt \in LocalCalls => in.failOn \in DOMAIN hostCerts
        /\ in.failAt \in RemoteCalls => in.failOn \in DOMAIN remoteCerts
        /\ in.failAt \notin LocalCalls \cup RemoteCalls => in.failOn = "CaCertPath"
        /\ in.failAt = "GetIP" => in.hostOrder[1] = "CaCertPath"
        /\ in.failAt \in {"GetIP", "GenerateCert", "NewSSHClient"} \cup LocalCalls
              => in.remoteOrder[1] = "CaCertPath" }

\* a pass of configureAuth under way: the calls made, the error returned
StartAuth == [log |-> <<>>, err |-> "", status |-> "running"]

\* variant: an error is recorded and the pass goes on
AuthCall_ContinueOnError(r, e, fails, msg) ==
    IF fails THEN [Emit(r, e) EXCEPT !.err = msg]
    ELSE IF Running(r) THEN Emit(r, e)
    ELSE r

\* one call and the error check after it: "if err != nil { return ... }"
AuthCall(r, e, fails, msg) ==
    IF ~Running(r) THEN r
    ELSE IF fails THEN [Emit(r, e) EXCEPT !.err = msg, !.status = "returned"]
    ELSE Emit(r, e)

\* for src, dst := range hostCerts, from the i-th key on
RECURSIVE CopyHostCerts(_, _, _)
CopyHostCerts(r, in, i) ==
    IF i > Len(in.hostOrder) THEN r
    ELSE LET src == in.hostOrder[i]
             f == [src |-> src, dst |-> hostCerts[src], perm |-> "0777"]
             r1 == AuthCall(r, Ev("NewFileAsset", f),
                            in.failAt = "NewFileAsset" /\ in.failOn = src, "open cert file")
             r2 == AuthCall(r1, Ev("CopyFileLocal", f),
                            in.failAt = "CopyFileLocal" /\ in.failOn = src, "transferring file")
         IN  CopyHostCerts(r2, in, i + 1)

\* for src, dst := range remoteCerts, from the i-th key on
RECURSIVE TransferRemoteCerts(_, _, _)
TransferRemoteCerts(r, in, i) ==
    IF i > Len(in.remoteOrder) THEN r
    ELSE LET src == in.remoteOrder[i]
             f == [src |-> src, dst |-> remoteCerts[src], perm |-> "0640"]
             r1 == AuthCall(r, Ev("NewFileAsset", f),
                            in.failAt = "NewRemoteFileAsset" /\ in.failOn = src, "error copying")
             r2 == AuthCall(r1, Ev("TransferFile", f),
                            in.failAt = "TransferFile" /\ in.failOn = src,
                            "transfering file to machine")
         IN  TransferRemoteCerts(r2, in, i + 1)

\* the remote command that writes the engine options
WriteOptionsCommand == "sudo mkdir -p dir && printf %s options | sudo tee EngineOptionsPath"

\* configureAuth: the calls made and the error returned ("" for nil)
configureAuth(in) ==
    LET r1 == AuthCall(StartAuth, Ev("GetIP", ""), in.failAt = "GetIP",
                       "error getting ip during provisioning")
        r2 == CopyHostCerts(r1, in, 1)
        r3 == AuthCall(r2, Ev("GenerateCert", "ServerCertPath"), in.failAt = "GenerateCert",
                       "error generating server cert")
        r4 == AuthCall(r3, Ev("NewSSHClient", ""), in.failAt = "NewSSHClient",
                       "provisioning: error getting ssh client")
        r5 == TransferRemoteCerts(r4, in, 1)
        r6 == AuthCall(r5, Ev("GenerateDockerOptions", ""),
                       in.failAt = "GenerateDockerOptions", "generating docker options")
        r7 == AuthCall(r6, Ev("SSHCommand", WriteOptionsCommand), in.failAt = "SSHCommand",
                       "ssh command error")
        r8 == AuthCall(r7, Ev("Service", "docker restart"), in.failAt = "Service",
                       "service error")
    IN  [log |-> r8.log, ret |-> r8.err]

-----------------------------------------------------------------------------
(* Actions *)

\* a fresh process over the persisted store and the guest's files
StartRun == [log |-> <<>>, cfg |-> InstanceConfig, files |-> guestFiles, status |-> "running"]

\* the answers recorded for an operation that does no discovery
NoDiscovery ==
    [failAt |-> "none", ip |-> "", device |-> "eth0", cidr |-> <<>>, dns |-> <<>>,
     gateway |-> ""]

NoDownload == [version |-> <<"3.7.0">>, osType |-> "linux", failAt |-> "none", entries |-> {}]

Finish(name, in, r) ==
    /\ op' = name
    /\ lastIn' = in
    /\ cfgBefore' = InstanceConfig
    /\ log' = r.log
    /\ status' = IF r.status = "running" THEN "done" ELSE r.status
    /\ InstanceConfig' = r.cfg
    /\ guestFiles' = r.files
    /\ UNCHANGED <<hypervisor, renderVars, dlVars, sdVars, authVars>>

Dynamic ==
    \E w1, w2 \in BOOLEAN :
        /\ Finish("dynamic", NoDiscovery, ConfigureDynamicAssignment(StartRun, w1, w2))
        /\ UNCHANGED ipVars

Static ==
    \E in \in DiscoveryInputs, w1, w2 \in BOOLEAN :
        /\ Finish("static", in, ConfigureStaticAssignment(StartRun, hypervisor, in, w1, w2))
        /\ UNCHANGED ipVars

\* one rendering of a settings object
RenderInputs ==
    [Device : Devices, IPAddress : {"", "10.0.0.5"}, Netmask : {"", "24"},
     Gateway : Gateways, DNS1 : {"", "8.8.8.8"}, DNS2 : {"", "8.8.4.4"},
     UseDHCP : BOOLEAN, Disabled : BOOLEAN]

Render ==
    \E ns \in RenderInputs :
        /\ op' = "render"
        /\ log' = <<>>
        /\ renderIn' = ns
        /\ renderOut' = fillNetworkSettingsScript(ns)
        /\ UNCHANGED <<netVars, dlVars, sdVars, ipVars, authVars>>

Download ==
    \E in \in DownloadInputs :
        LET d == DownloadOcpVersionFromMirror(fs, in)
        IN  /\ op' = "download"
            /\ log' = d.log
            /\ dlIn' = in
            /\ dlRet' = d.ret
            /\ fs' = d.fs
            /\ UNCHANGED <<netVars, renderVars, sdVars, ipVars, authVars>>

NoResolution ==
    [defaultDriver |-> "aufs", suppliedDriver |-> "", probeFails |-> FALSE, stat |-> <<>>]

DecideStorageDriver ==
    \E in \in StorageInputs :
        LET d == decideStorageDriver(in)
        IN  /\ op' = "storage"
            /\ log' = d.log
            /\ sdIn' = in
            /\ sdRet' = [driver |-> d.driver, err |-> d.err]
            /\ UNCHANGED <<netVars, renderVars, dlVars, ipVars, authVars>>

\* the pass recorded before any has run
NoAuth ==
    [failAt |-> "none", failOn |-> "CaCertPath",
     hostOrder |-> <<"CaCertPath", "ClientCertPath", "ClientKeyPath">>,
     remoteOrder |-> <<"CaCertPath", "ServerCertPath", "ServerKeyPath">>]

ConfigureAuth ==
    \E in \in AuthInputs :
        LET a == configureAuth(in)
        IN  /\ op' = "auth"
            /\ log' = a.log
            /\ authIn' = in
            /\ authRet' = a.ret
            /\ UNCHANGED <<netVars, renderVars, dlVars, sdVars, ipVars>>

IpFinish(flags, in, w1, w2) ==
    LET res == ipCmdRun(StartRun, hypervisor, flags, in, w1, w2)
    IN  /\ ipIn' = flags
        /\ ipOut' = res.out
        /\ Finish("ip", in, res.run)

\* The flags of one run of the ip command, whether api.Load fails, and the
\* driver's answer.  The answers a run never asks for are held at one value:
\* the driver's answer matters to the plain command alone.
IpInputs ==
    { f \in [static : BOOLEAN, dhcp : BOOLEAN, loadFails : BOOLEAN, driver : DriverAnswers] :
        (f.static \/ f.dhcp \/ f.loadFails) => f.driver = NoAnswer }

\* One run of the ip command.  Discovery answers matter to --static alone, the
\* results of the writes to a configuration.
IpCmd ==
    \E flags \in IpInputs :
        \E in \in (IF flags.static /\ ~flags.dhcp /\ ~flags.loadFails
                   THEN DiscoveryInputs ELSE {NoDiscovery}),
           w1, w2 \in (IF flags.static # flags.dhcp /\ ~flags.loadFails
                       THEN BOOLEAN ELSE {FALSE}) :
            IpFinish(flags, in, w1, w2)

\* nothing has run yet
Idle ==
    /\ op = "none"
    /\ log = <<>>
    /\ status = "done"
    /\ lastIn = NoDiscovery
    /\ cfgBefore = InstanceConfig
    /\ guestFiles = [p \in GuestPaths |-> ""]
    /\ renderIn = ZeroSettings
    /\ renderOut = ""
    /\ dlIn = NoDownload
    /\ dlRet = ""
    /\ fs = [tmpExists |-> FALSE, tmp |-> {}, outExists |-> FALSE, out |-> <<>>]
    /\ sdIn = NoResolution
    /\ sdRet = [driver |-> "", err |-> ""]
    /\ ipIn = [static |-> FALSE, dhcp |-> FALSE, loadFails |-> FALSE, driver |-> NoAnswer]
    /\ ipOut = NoIP
    /\ authIn = NoAuth
    /\ authRet = ""

vars == <<op, log, netVars, renderVars, dlVars, sdVars, ipVars, authVars>>

\* the network configurator
Init ==
    /\ InstanceConfig \in [IPAddress : {""}, IsRHELBased : BOOLEAN,
                           SupportsNetworkAssignment : BOOLEAN]
    /\ hypervisor \in Hypervisors
    /\ Idle

Next == Dynamic \/ Static

Spec == Init /\ [][Next]_vars

\* the renderer alone, over every combination of the fields
InitRender ==
    /\ InstanceConfig = [IPAddress |-> "", IsRHELBased |-> TRUE,
                         SupportsNetworkAssignment |-> TRUE]
    /\ hypervisor = "KVM"
    /\ Idle

NextRender == Render

SpecRender == InitRender /\ [][NextRender]_vars

\* the asset download alone
InitDownload == InitRender

NextDownload == Download

SpecDownload == InitDownload /\ [][NextDownload]_vars

\* the ip command, run again and again on one instance
InitIp == Init

NextIp == IpCmd

SpecIp == InitIp /\ [][NextIp]_vars

\* the storage driver resolution alone
InitStorage == InitRender

NextStorage == DecideStorageDriver

SpecStorage == InitStorage /\ [][NextStorage]_vars

\* the authentication set-up alone
InitAuth == InitRender

NextAuth == ConfigureAuth

SpecAuth == InitAuth /\ [][NextAuth]_vars

-----------------------------------------------------------------------------
(* Observations used by the properties *)

Indexes(name) == {i \in DOMAIN log : log[i].ev = name}

IsApply(e) == e.ev = "apply"

\* the apply calls of the last operation, in order
Applies == SelectSeq(log, IsApply)

\* the discovery queries issued by the last operation, in order
IsQuery(e) == e.ev = "ssh"

Queries == SelectSeq(log, IsQuery)

GateOpen == InstanceConfig.IsRHELBased /\ InstanceConfig.SupportsNetworkAssignment

CidrOK == "/" \in Range(lastIn.cidr)

DiscoveryOK == lastIn.failAt = "none" /\ lastIn.ip # "" /\ CidrOK

\* what discovery must return for the recorded answers, read off the answers
\* themselves: <<address, "/", prefix, ...>> and <<ns1, " ", ns2, ...>>
ExpectedSettings ==
    [Device |-> lastIn.device,
     IPAddress |-> lastIn.cidr[1],
     Netmask |-> lastIn.cidr[3],
     Gateway |-> lastIn.gateway,
     DNS1 |-> IF Len(lastIn.dns) >= 1 THEN lastIn.dns[1] ELSE "",
     DNS2 |-> IF Len(lastIn.dns) >= 3 THEN lastIn.dns[3] ELSE "",
     UseDHCP |-> FALSE,
     Disabled |-> FALSE]

DhcpSettings(device) ==
    [Device |-> device, IPAddress |-> "", Netmask |-> "", Gateway |-> "",
     DNS1 |-> "", DNS2 |-> "", UseDHCP |-> TRUE, Disabled |-> FALSE]

DisabledSettings(device) ==
    [Device |-> device, IPAddress |-> "", Netmask |-> "", Gateway |-> "",
     DNS1 |-> "", DNS2 |-> "", UseDHCP |-> FALSE, Disabled |-> TRUE]

IsNotice(e) == e.ev = "println" /\ e.arg = configureRestartNeededMessage

NoticeIndexes == {i \in DOMAIN log : IsNotice(log[i])}

KnownHypervisors == {"VIRTUALBOX", "KVM", "HYPERV", "XHYVE"}

-----------------------------------------------------------------------------
(* C1: with the capability gate closed, static and dynamic configuration    *)
(* abort at the gate: the only event of the operation is the fatal exit     *)
(* with the not-supported message, so no apply call and no remote command   *)
(* is made, and the instance-config store is left as it was.                *)
C1_ClosedGateAborts ==
    (op \in {"static", "dynamic"} /\ ~GateOpen) =>
        /\ status = "exited"
        /\ Len(log) = 1
        /\ log[1].ev = "exit"
        /\ log[1].arg = configureNetworkNotSupportedMessage
        /\ InstanceConfig = cfgBefore

C1_Witness ==
    /\ op = "static"
    /\ InstanceConfig.IsRHELBased
    /\ ~InstanceConfig.SupportsNetworkAssignment
    /\ status = "exited"

(* C2: static configuration with the gate open and a successful discovery   *)
(* on one of the four known hypervisors makes exactly two apply calls: first *)
(* the discovered device with the discovered static settings, then eth0     *)
(* with useDHCP on VIRTUALBOX/KVM, or eth1 disabled on HYPERV/XHYVE.        *)
C2_StaticTwoApplies ==
    (op = "static" /\ GateOpen /\ DiscoveryOK /\ hypervisor \in KnownHypervisors) =>
        /\ status = "done"
        /\ Len(Applies) = 2
        /\ Applies[1].arg.settings = ExpectedSettings
        /\ Applies[2].arg.settings =
               IF hypervisor \in {"VIRTUALBOX", "KVM"}
               THEN DhcpSettings("eth0")
               ELSE DisabledSettings("eth1")

C2_Witness ==
    /\ op = "static"
    /\ status = "done"
    /\ hypervisor = "HYPERV"
    /\ Len(Applies) = 2
    /\ Applies[1].arg.settings.Device = "eth0"
    /\ Applies[2].arg.settings.Disabled

C4_DynamicTwoApplies ==
    (op = "dynamic" /\ GateOpen) =>
        /\ status = "done"
        /\ Len(Applies) = 2
        /\ Applies[1].arg.settings = DhcpSettings("eth0")
        /\ Applies[2].arg.settings = DhcpSettings("eth1")
        /\ NoticeIndexes = {Len(log)}
        /\ \A i \in Indexes("apply") : i < Len(log)

C4_Witness ==
    /\ op = "dynamic"
    /\ hypervisor = "XHYVE"
    /\ Len(Applies) = 2
    /\ ~Applies[1].arg.ok
    /\ Applies[2].arg.ok
    /\ NoticeIndexes # {}

\* the discovery step that fails under the recorded answers, if one does
FailingStep ==
    IF lastIn.failAt = "ip" \/ lastIn.ip = "" THEN "ip"
    ELSE IF lastIn.failAt \in {"device", "cidr"} THEN lastIn.failAt
    ELSE IF lastIn.failAt \in {"dns", "gateway"} /\ CidrOK THEN lastIn.failAt
    ELSE "none"

QueriesUpTo(step) ==
    CASE step = "ip" -> <<>>
      [] step = "device" -> <<"device">>
      [] step = "cidr" -> <<"device", "cidr">>
      [] step = "dns" -> <<"device", "cidr", "dns">>
      [] step = "gateway" -> <<"device", "cidr", "dns", "gateway">>

(* C5: discovery is fail-fast.  When the driver's address query fails or    *)
(* returns the empty address, or one of the device, CIDR, DNS and gateway   *)
(* queries fails, the process exits there: the exit is the last event, the  *)
(* queries issued are those up to the failing one, no apply call is made    *)
(* and the instance-config store is neither assigned nor flushed.           *)
C5_DiscoveryFailFast ==
    (op = "static" /\ GateOpen /\ FailingStep # "none") =>
        /\ status = "exited"
        /\ log[Len(log)].ev = "exit"
        /\ Indexes("exit") = {Len(log)}
        /\ [i \in DOMAIN Queries |-> Queries[i].arg] = QueriesUpTo(FailingStep)
        /\ Len(Applies) = 0
        /\ Indexes("setIPAddress") = {}
        /\ Indexes("Write") = {}
        /\ InstanceConfig = cfgBefore

C5_Witness ==
    /\ op = "static"
    /\ GateOpen
    /\ lastIn.failAt = "dns"
    /\ CidrOK
    /\ status = "exited"
    /\ Len(Queries) = 3

(* C6: the apply step is best-effort.  A failed write returns false, is     *)
(* reported, and the operation goes on: it completes with its notice, and   *)
(* the second write (the companion interface in static mode, eth1 in        *)
(* dynamic mode) is still attempted after a failed first write.             *)
C6_ApplyBestEffort ==
    /\ \A i \in Indexes("apply") : log[i].arg.ret = log[i].arg.ok
    /\ \A i \in Indexes("apply") :
          ~log[i].arg.ok =>
              /\ log[i + 1].ev = "println"
              /\ log[i + 1].arg = "FAIL"
              /\ status = "done"
              /\ IsNotice(log[Len(log)])
              /\ Len(Applies) = 2
              /\ Applies[2].arg.settings.Device =
                     IF op = "static" /\ hypervisor \in {"HYPERV", "XHYVE"} THEN "eth1"
                     ELSE IF op = "static" THEN "eth0"
                     ELSE "eth1"

C6_Witness ==
    /\ op = "static"
    /\ hypervisor = "KVM"
    /\ Len(Applies) = 2
    /\ ~Applies[1].arg.ok
    /\ ~Applies[1].arg.ret
    /\ Applies[2].arg.settings = DhcpSettings("eth0")
    /\ status = "done"

(* C7: when static configuration runs to completion (gate open, discovery   *)
(* successful) the store's IPAddress is the address discovery resolved, and *)
(* the store was flushed with that value after the assignment; assignment   *)
(* and flush come after every apply call and before the restart notice.     *)
C7_StaticPersistsAddress ==
    (op = "static" /\ GateOpen /\ DiscoveryOK) =>
        /\ status = "done"
        /\ InstanceConfig.IPAddress = ExpectedSettings.IPAddress
        /\ \E s, w \in DOMAIN log :
              /\ Indexes("setIPAddress") = {s}
              /\ Indexes("Write") = {w}
              /\ log[s].arg = ExpectedSettings.IPAddress
              /\ log[w].arg = ExpectedSettings.IPAddress
              /\ \A a \in Indexes("apply") : a < s
              /\ s < w
              /\ NoticeIndexes = {Len(log)}
              /\ w < Len(log)

C7_Witness ==
    /\ op = "static"
    /\ status = "done"
    /\ hypervisor = "VIRTUALBOX"
    /\ cfgBefore.IPAddress = ""
    /\ InstanceConfig.IPAddress = "10.0.0.5"
    /\ Indexes("Write") # {}
    /\ Len(Applies) = 2

(* C8: template selection has the priority disabled > dhcp > static over   *)
(* every combination of the fields: a disabled settings object renders the  *)
(* disabled template whatever its other fields, an enabled one with useDHCP *)
(* the dynamic template, and any other the static template with the device, *)
(* address, netmask, gateway and the two nameservers as key=value lines.    *)
C8_TemplatePriority ==
    op = "render" =>
        renderOut =
            IF renderIn.Disabled
            THEN "DEVICE=" \o renderIn.Device \o "\nDISABLED=true\n"
            ELSE IF renderIn.UseDHCP
            THEN "DEVICE=" \o renderIn.Device \o "\nUSEDHCP=true\n"
            ELSE "DEVICE=" \o renderIn.Device \o "\nIPADDR=" \o renderIn.IPAddress
                 \o "\nNETMASK=" \o renderIn.Netmask \o "\nGATEWAY=" \o renderIn.Gateway
                 \o "\nDNS1=" \o renderIn.DNS1 \o "\nDNS2=" \o renderIn.DNS2 \o "\n"

C8_Witness ==
    /\ op = "render"
    /\ renderIn.Disabled
    /\ renderIn.UseDHCP
    /\ renderIn.IPAddress = "10.0.0.5"
    /\ renderIn.Device = "eth1"
    /\ renderOut = "DEVICE=eth1\nDISABLED=true\n"

\* the archive was fetched, unpacked and listed without an error
Unpacked ==
    /\ op = "download"
    /\ dlIn.failAt \notin {"tempdir", "get", "save", "ungzip", "untar", "unzip", "list"}

(* C9 as stated: on the .tar.gz and on the .zip path alike, when the        *)
(* unpacked archive leaves 0 or at least 2 entries besides the archive, the *)
(* download returns the unexpected-layout error and copies nothing into the *)
(* output directory.                                                        *)
C9_UnexpectedLayoutRejected ==
    (Unpacked /\ Cardinality(dlIn.entries) # 1) =>
        /\ dlRet = "Unexpected number of files in tmp directory"
        /\ Indexes("Create") = {}

(* C10: the temporary working directory does not exist once the download    *)
(* has returned, on the success path and on every failure path; where it    *)
(* was created, its removal is the last thing the call does.                *)
C10_TempDirRemoved ==
    op = "download" =>
        /\ ~fs.tmpExists
        /\ fs.tmp = {}
        /\ Indexes("TempDir") # {} => log[Len(log)].ev = "RemoveAll"

C10_Witness ==
    /\ op = "download"
    /\ dlRet = "Cannot copy"
    /\ Indexes("Untar") # {}
    /\ Indexes("Create") # {}
    /\ log[Len(log)].ev = "RemoveAll"
    /\ ~fs.tmpExists

\* the file-system type the guest reports, read off the answer itself
ReportedBtrfs == sdIn.stat # <<>> /\ sdIn.stat[1] = "btrfs"

(* C11: storage driver resolution.  A supplied driver is returned verbatim  *)
(* and the guest is not probed; with none supplied and the default "aufs",  *)
(* a detected type of btrfs gives "btrfs" and any other type "aufs"; with   *)
(* none supplied and another default, the default is returned without a     *)
(* probe; a failed probe returns an error and no driver.                    *)
C11_StorageDriverResolution ==
    op = "storage" =>
        /\ sdIn.suppliedDriver # "" =>
              /\ sdRet = [driver |-> sdIn.suppliedDriver, err |-> ""]
              /\ Indexes("SSHCommand") = {}
        /\ (sdIn.suppliedDriver = "" /\ sdIn.defaultDriver # "aufs") =>
              /\ sdRet = [driver |-> sdIn.defaultDriver, err |-> ""]
              /\ Indexes("SSHCommand") = {}
        /\ (sdIn.suppliedDriver = "" /\ sdIn.defaultDriver = "aufs") =>
              /\ Indexes("SSHCommand") = {1}
              /\ sdIn.probeFails => (sdRet.driver = "" /\ sdRet.err # "")
              /\ (~sdIn.probeFails /\ ReportedBtrfs) =>
                     sdRet = [driver |-> "btrfs", err |-> ""]
              /\ (~sdIn.probeFails /\ ~ReportedBtrfs) =>
                     sdRet = [driver |-> "aufs", err |-> ""]

C11_Witness ==
    /\ op = "storage"
    /\ sdIn.suppliedDriver = ""
    /\ sdIn.defaultDriver = "aufs"
    /\ ~sdIn.probeFails
    /\ sdIn.stat = <<"btrfs", "\n">>
    /\ sdRet.driver = "btrfs"

(* C12: the resolved storage driver is never empty: whenever the resolution *)
(* returns without an error, for every default driver (the empty one        *)
(* included), supplied driver and detected type, the driver is non-empty.   *)
C12_DriverNeverEmpty ==
    (op = "storage" /\ sdRet.err = "") => sdRet.driver # ""

HasPrintln(msg) == \E i \in DOMAIN log : log[i].ev = "println" /\ log[i].arg = msg

RanStatic == HasPrintln("Static assignment of IP address")

RanDynamic == HasPrintln("Dynamic assignment of IP address")

(* C13: the ip command treats --static and --dhcp as mutually exclusive.    *)
(* With both it exits with the usage error before the host is loaded and    *)
(* before any configuration or remote write; with neither it only obtains   *)
(* and prints the address, with no apply call and no change to the store;   *)
(* with exactly one (and the host loaded) it runs that configuration and    *)
(* not the other.                                                           *)
C13_FlagsExclusive ==
    op = "ip" =>
        /\ (ipIn.static /\ ipIn.dhcp) =>
              /\ status = "exited"
              /\ Len(log) = 1
              /\ log[1].ev = "exit"
              /\ log[1].arg = "Invalid options specified"
              /\ InstanceConfig = cfgBefore
        /\ (~ipIn.static /\ ~ipIn.dhcp /\ ~ipIn.loadFails) =>
              /\ Len(Applies) = 0
              /\ Len(Queries) = 0
              /\ InstanceConfig = cfgBefore
              /\ ~RanStatic /\ ~RanDynamic
              /\ ipOut.err = "" =>
                    (status = "done" /\ log[Len(log)] = Ev("println", ipOut.ip))
              /\ ipOut.err # "" => (status = "exited" /\ log[Len(log)].ev = "exit")
        /\ (ipIn.dhcp /\ ~ipIn.static /\ ~ipIn.loadFails /\ GateOpen) =>
              /\ RanDynamic /\ ~RanStatic
              /\ Len(Applies) = 2
              /\ Applies[1].arg.settings = DhcpSettings("eth0")
              /\ Applies[2].arg.settings = DhcpSettings("eth1")
              /\ Len(Queries) = 0
              /\ InstanceConfig = cfgBefore
        /\ (ipIn.static /\ ~ipIn.dhcp /\ ~ipIn.loadFails /\ GateOpen) =>
              /\ RanStatic /\ ~RanDynamic
              /\ Indexes("GetIP") # {}
              /\ DiscoveryOK => (status = "done" /\ Indexes("Write") # {})
        /\ (ipIn.static # ipIn.dhcp /\ ~ipIn.loadFails /\ ~GateOpen) =>
              /\ status = "exited"
              /\ log[Len(log)] = Ev("exit", configureNetworkNotSupportedMessage)

C13_Witness ==
    /\ op = "ip"
    /\ ipIn.static
    /\ ipIn.dhcp
    /\ GateOpen
    /\ status = "exited"
    /\ Indexes("Load") = {}

(* C14: configureAuth runs its steps in a fixed order (the local credential *)
(* copies, the server certificate, the transfer of the three credential     *)
(* files to the guest, the rendering of the engine options, the remote      *)
(* write of the options file, the engine restart) and is fail-fast: a       *)
(* failing step returns an error and no later step runs; the restart is     *)
(* issued only after the options file was written; a failing restart is     *)
(* returned; nil is returned only when every step, the restart included,    *)
(* succeeded.                                                               *)

\* the step an event of configureAuth belongs to
AuthPhase(e) ==
    IF e.ev = "GetIP" THEN 0
    ELSE IF e.ev = "CopyFileLocal" THEN 1
    ELSE IF e.ev = "NewFileAsset" THEN (IF e.arg.perm = "0777" THEN 1 ELSE 4)
    ELSE IF e.ev = "GenerateCert" THEN 2
    ELSE IF e.ev = "NewSSHClient" THEN 3
    ELSE IF e.ev = "TransferFile" THEN 4
    ELSE IF e.ev = "GenerateDockerOptions" THEN 5
    ELSE IF e.ev = "SSHCommand" THEN 6
    ELSE 7

\* the credential files an event of that name was issued for
FilesOf(name) == { log[i].arg.src : i \in Indexes(name) }

\* the step has run to its end
AuthPhaseComplete(k) ==
    IF k = 1 THEN FilesOf("CopyFileLocal") = DOMAIN hostCerts
    ELSE IF k = 4 THEN FilesOf("TransferFile") = DOMAIN remoteCerts
    ELSE \E i \in DOMAIN log : AuthPhase(log[i]) = k

\* the event is the call that was made to fail
IsFailedAuthCall(e) ==
    IF authIn.failAt \in LocalCalls
    THEN e.ev = authIn.failAt /\ e.arg.src = authIn.failOn /\ e.arg.perm = "0777"
    ELSE IF authIn.failAt = "NewRemoteFileAsset"
    THEN e.ev = "NewFileAsset" /\ e.arg.src = authIn.failOn /\ e.arg.perm = "0640"
    ELSE IF authIn.failAt = "TransferFile"
    THEN e.ev = "TransferFile" /\ e.arg.src = authIn.failOn
    ELSE e.ev = authIn.failAt

C14_AuthFailFast ==
    op = "auth" =>
        /\ \A i, j \in DOMAIN log : i < j => AuthPhase(log[i]) <= AuthPhase(log[j])
        /\ \A i \in DOMAIN log : \A k \in 0..7 :
              k < AuthPhase(log[i]) => AuthPhaseComplete(k)
        /\ \A i, j \in DOMAIN log : log[i] = log[j] => i = j
        /\ authIn.failAt # "none" =>
              /\ authRet # ""
              /\ log # <<>>
              /\ IsFailedAuthCall(log[Len(log)])
              /\ \A i \in DOMAIN log : IsFailedAuthCall(log[i]) => i = Len(log)
        /\ \A i \in Indexes("Service") :
              /\ i > 1
              /\ log[i - 1].ev = "SSHCommand"
              /\ authIn.failAt # "SSHCommand"
        /\ authRet = "" =>
              /\ authIn.failAt = "none"
              /\ \A k \in 0..7 : AuthPhaseComplete(k)
              /\ Len(log) = 18
              /\ log[Len(log)].ev = "Service"

\* the write of the options file fails, after the credential files were
\* visited in an order other than the one they are written in
C14_Witness ==
    /\ op = "auth"
    /\ authIn.failAt = "SSHCommand"
    /\ authIn.hostOrder[1] = "ClientKeyPath"
    /\ authIn.remoteOrder[1] = "ServerKeyPath"
    /\ authRet = "ssh command error"
    /\ Len(log) = 17
    /\ log[17] = Ev("SSHCommand", WriteOptionsCommand)
    /\ Indexes("Service") = {}

\* a static configuration on a recognised hypervisor that ran to its end,
\* every remote write having succeeded
StaticAllWritten ==
    /\ op = "static"
    /\ GateOpen
    /\ DiscoveryOK
    /\ hypervisor \in KnownHypervisors
    /\ status = "done"
    /\ \A i \in DOMAIN Applies : Applies[i].arg.ok

\* the static template filled with the discovered settings
StaticScript ==
    "DEVICE=" \o ExpectedSettings.Device \o "\nIPADDR=" \o ExpectedSettings.IPAddress
    \o "\nNETMASK=" \o ExpectedSettings.Netmask \o "\nGATEWAY=" \o ExpectedSettings.Gateway
    \o "\nDNS1=" \o ExpectedSettings.DNS1 \o "\nDNS2=" \o ExpectedSettings.DNS2 \o "\n"

\* the companion interface of the hypervisor and what is written for it
CompanionDevice == IF hypervisor \in {"VIRTUALBOX", "KVM"} THEN "eth0" ELSE "eth1"

CompanionScript ==
    IF hypervisor \in {"VIRTUALBOX", "KVM"}
    THEN "DEVICE=eth0\nUSEDHCP=true\n"
    ELSE "DEVICE=eth1\nDISABLED=true\n"

(* C15 as stated: after a static configuration on a recognised hypervisor   *)
(* in which every remote write succeeds, the file of the discovered device  *)
(* holds the static rendering of the discovered settings, for every         *)
(* discovered device, the companion interface included.                     *)
C15_Original ==
    StaticAllWritten => guestFiles[NetworkingPath(lastIn.device)] = StaticScript

(* C15, amended: after such a configuration the file of the discovered      *)
(* device holds the static rendering of the discovered settings when the    *)
(* device is not the companion interface of the hypervisor; when it is, the *)
(* companion write comes last on the same path and the file holds the       *)
(* companion's rendering (DHCP on VIRTUALBOX/KVM, disabled on HYPERV/XHYVE).*)
C15_LastWriteWins ==
    StaticAllWritten =>
        guestFiles[NetworkingPath(lastIn.device)] =
            IF lastIn.device = CompanionDevice THEN CompanionScript ELSE StaticScript

\* the discovered device is eth0 on KVM: its file ends with the DHCP rendering
C15_Witness ==
    /\ StaticAllWritten
    /\ hypervisor = "KVM"
    /\ lastIn.device = "eth0"
    /\ Len(Applies) = 2
    /\ Applies[1].arg.path = Applies[2].arg.path
    /\ guestFiles[NetworkingPath("eth0")] = "DEVICE=eth0\nUSEDHCP=true\n"

(* C16: over any sequence of static configurations, dynamic configurations  *)
(* and plain address queries, the persisted IPAddress changes only in a     *)
(* static configuration that runs to completion; a dynamic configuration    *)
(* leaves the store as it was; and the plain query returns the persisted    *)
(* address whenever it is non-empty, without asking the driver.             *)
C16_PersistedAddressFrame ==
    op = "ip" =>
        /\ InstanceConfig # cfgBefore =>
              /\ ipIn.static /\ ~ipIn.dhcp
              /\ status = "done"
              /\ InstanceConfig = [cfgBefore EXCEPT !.IPAddress = ExpectedSettings.IPAddress]
        /\ ipIn.dhcp =>
              /\ InstanceConfig = cfgBefore
              /\ Indexes("setIPAddress") = {}
              /\ Indexes("Write") = {}
        /\ (~ipIn.static /\ ~ipIn.dhcp /\ ~ipIn.loadFails /\ cfgBefore.IPAddress # "") =>
              /\ ipOut = [ip |-> cfgBefore.IPAddress, err |-> ""]
              /\ Indexes("GetIP") = {}
              /\ status = "done"

\* a plain query on an instance configured statically and then dynamically,
\* whose driver now reports another address
C16_Witness ==
    /\ op = "ip"
    /\ ~ipIn.static /\ ~ipIn.dhcp /\ ~ipIn.loadFails
    /\ hypervisor = "HYPERV"
    /\ guestFiles[NetworkingPath("eth0")] = "DEVICE=eth0\nUSEDHCP=true\n"
    /\ guestFiles[NetworkingPath("eth1")] = "DEVICE=eth1\nUSEDHCP=true\n"
    /\ cfgBefore.IPAddress = "10.0.0.5"
    /\ ipIn.driver = [fails |-> FALSE, ip |-> "10.0.0.9"]
    /\ ipOut.ip = "10.0.0.5"

(* C17: for every output the remote queries return when they succeed (an   *)
(* empty CIDR line or one without "/" and an empty nameserver list          *)
(* included), the discovery of a static configuration ends in one of two    *)
(* ways only: it returns settings whose address and netmask are the two     *)
(* components of the CIDR, or it exits with a message; it never panics.     *)
C17_DiscoveryNeverPanics ==
    (op = "static" /\ GateOpen /\ lastIn.failAt = "none") =>
        /\ status \in {"done", "exited"}
        /\ Indexes("panic") = {}
        /\ status = "done" =>
              /\ CidrOK
              /\ InstanceConfig.IPAddress = lastIn.cidr[1]
              /\ hypervisor \in KnownHypervisors =>
                    /\ Applies[1].arg.settings.IPAddress = lastIn.cidr[1]
                    /\ Applies[1].arg.settings.Netmask = lastIn.cidr[3]

=============================================================================
